---- MODULE Spec2Model ----
(***************************************************************************)
(* Reservation admission core of the ReservePTY API (src/server.js) over   *)
(* the schema of src/init-db.js.                                           *)
(*                                                                         *)
(* A request handler is an async function: it runs synchronously from one  *)
(* `await pool.query(...)` to the next, so each action below is one query  *)
(* executed by the datastore together with the synchronous JavaScript that *)
(* follows its result.  Timestamps are integers counted in clock ticks,    *)
(* TicksPerDay ticks to the day (the source counts milliseconds).          *)
(***************************************************************************)
EXTENDS Integers, Sequences, FiniteSets, TLC

VARIABLES
    reservations,   \* table reservations: sequence of rows, row i has id i
    now,            \* the clock read by NOW() and new Date()
    pc,             \* pc[h]: the query handler h is waiting on ("idle" if none)
    req,            \* req[h]: the request handler h is serving (req.user, req.body, req.params)
    resp,           \* resp[h]: the last response handler h sent, with the request it answers
    tierIn,         \* input of the tier-policy lookup (specification TierSpec)
    tierOut         \* its result, 0 before the lookup ran

vars == <<reservations, now, pc, req, resp, tierIn, tierOut>>

---------------------------------------------------------------------------
(* Bounds of the model *)

TicksPerDay == 2
MaxNow == 1
MaxReservations == 2
NumHandlers == 2
MaxTierInput == 25

Handlers == 1..NumHandlers

---------------------------------------------------------------------------
(* JavaScript values that are not plain numbers in the tier lookup *)

JsNum(n) == [kind |-> "number", val |-> n]
JsNull == [kind |-> "null", val |-> 0]
JsUndefined == [kind |-> "undefined", val |-> 0]
JsNaN == [kind |-> "NaN", val |-> 0]

\* x - 1: null converts to 0, undefined to NaN
JsMinusOne(x) ==
    CASE x.kind = "number" -> JsNum(x.val - 1)
      [] x.kind = "null" -> JsNum(-1)
      [] OTHER -> JsNaN

\* arr[i] on a JavaScript array (0-based); anything but an index in range is undefined
JsIndex(arr, i) ==
    IF i.kind = "number" /\ i.val >= 0 /\ i.val < Len(arr)
    THEN JsNum(arr[i.val + 1])
    ELSE JsUndefined

\* v || d for a number-or-undefined v and a number d
JsOr(v, d) == IF v.kind = "number" /\ v.val # 0 THEN v.val ELSE d

TierDays == <<365, 180, 90, 30>>
DefaultDays == 30

\* const maxDaysAhead = [365, 180, 90, 30][req.user.tier - 1] || 30
maxDaysAheadOffByOne(tier) == JsOr(JsIndex(TierDays, tier), DefaultDays)
maxDaysAhead(tier) == JsOr(JsIndex(TierDays, JsMinusOne(tier)), DefaultDays)

\* Math.ceil(a / b) for b > 0
CeilDivFloor(a, b) == a \div b
CeilDiv(a, b) == -((-a) \div b)

\* Math.ceil((new Date(startDate) - new Date()) / (1000 * 60 * 60 * 24))
daysAhead(startDate, clock) == CeilDiv(startDate - clock, TicksPerDay)

---------------------------------------------------------------------------
(* The datastore: static tables and the queries of the handlers *)

NULL == "null"

\* rows of table users (family_id may be NULL, tier is 1..4)
users ==
    { [id |-> "u1", family_id |-> "f1", tier |-> 1],
      [id |-> "u2", family_id |-> "f1", tier |-> 4],
      [id |-> "u4", family_id |-> NULL, tier |-> 4] }

\* rows of table assets (family_id NOT NULL)
assets ==
    { [id |-> "a1", family_id |-> "f1"],
      [id |-> "a2", family_id |-> "f2"] }

\* SQL `x = y`: never true when either side is NULL
SqlEq(x, y) == x # NULL /\ y # NULL /\ x = y

\* SELECT * FROM users WHERE id = $1
SelectUser(userId) == {u \in users : SqlEq(u.id, userId)}

\* SELECT * FROM assets WHERE id = $1 AND family_id = $2
SelectAssetAnyFamily(assetId, familyId) == {a \in assets : SqlEq(a.id, assetId)}
SelectAssetNullAsAny(assetId, familyId) ==
    {a \in assets : SqlEq(a.id, assetId) /\ (familyId = NULL \/ a.family_id = familyId)}
SelectAsset(assetId, familyId) ==
    {a \in assets : SqlEq(a.id, assetId) /\ SqlEq(a.family_id, familyId)}

Min2(a, b) == IF a <= b THEN a ELSE b
Max2(a, b) == IF a >= b THEN a ELSE b

\* PostgreSQL (s1, e1) OVERLAPS (s2, e2): each pair is ordered first; then the
\* periods are half-open [start, end), a period with start = end being that instant
OverlapsInclusive(s1, e1, s2, e2) == s1 <= e2 /\ s2 <= e1
OverlapsStartInside(s1, e1, s2, e2) == s1 <= s2 /\ s2 < e1
Overlaps(s1, e1, s2, e2) ==
    LET ts1 == Min2(s1, e1)
        te1 == Max2(s1, e1)
        ts2 == Min2(s2, e2)
        te2 == Max2(s2, e2)
    IN  IF ts1 > ts2 THEN ts1 < te2
        ELSE IF ts1 < ts2 THEN ts2 < te1
        ELSE TRUE

Ids == 1..Len(reservations)

\* SELECT id FROM reservations WHERE asset_id = $1 AND status != 'cancelled'
\*   AND (start_date, end_date) OVERLAPS ($2::timestamp, $3::timestamp)
SelectConflictsAnyStatus(assetId, startDate, endDate) ==
    {i \in Ids :
        /\ SqlEq(reservations[i].asset_id, assetId)
        /\ Overlaps(reservations[i].start_date, reservations[i].end_date,
                    startDate, endDate)}
SelectConflictsConfirmedOnly(assetId, startDate, endDate) ==
    {i \in Ids :
        /\ SqlEq(reservations[i].asset_id, assetId)
        /\ reservations[i].status = "confirmed"
        /\ Overlaps(reservations[i].start_date, reservations[i].end_date,
                    startDate, endDate)}
SelectConflicts(assetId, startDate, endDate) ==
    {i \in Ids :
        /\ SqlEq(reservations[i].asset_id, assetId)
        /\ reservations[i].status # "cancelled"
        /\ Overlaps(reservations[i].start_date, reservations[i].end_date,
                    startDate, endDate)}

\* the row of INSERT INTO reservations (...) VALUES ($1, $2, $3, $4, $5, 'confirmed', ...)
NewRowOrdered(id, assetId, userId, startDate, endDate) ==
    [id |-> id, asset_id |-> assetId, user_id |-> userId,
     start_date |-> Min2(startDate, endDate), end_date |-> Max2(startDate, endDate),
     status |-> "confirmed", updated_at |-> now]
NewRow(id, assetId, userId, startDate, endDate) ==
    [id |-> id, asset_id |-> assetId, user_id |-> userId,
     start_date |-> startDate, end_date |-> endDate,
     status |-> "confirmed", updated_at |-> now]

\* rows matched by UPDATE reservations ... WHERE id = $1 AND user_id = $2
CancelMatchesAnyUser(id, userId) == {i \in Ids : reservations[i].id = id}
CancelMatchesLive(id, userId) ==
    {i \in Ids :
        /\ reservations[i].id = id
        /\ SqlEq(reservations[i].user_id, userId)
        /\ reservations[i].status # "cancelled"}
CancelMatchesConfirmed(id, userId) ==
    {i \in Ids :
        /\ reservations[i].id = id
        /\ SqlEq(reservations[i].user_id, userId)
        /\ reservations[i].status = "confirmed"}
CancelMatches(id, userId) ==
    {i \in Ids : reservations[i].id = id /\ SqlEq(reservations[i].user_id, userId)}

\* SET status = 'cancelled', updated_at = NOW()
CancelledRow(row) == [row EXCEPT !.status = "cancelled", !.updated_at = now]

---------------------------------------------------------------------------
(* Requests and responses *)

NoUser == [id |-> "-", family_id |-> NULL, tier |-> 0]
NoReq == [user |-> NoUser, assetId |-> "-", startDate |-> 0, endDate |-> 0, id |-> 0]
NoRow == [id |-> 0, asset_id |-> "-", user_id |-> "-", start_date |-> 0,
          end_date |-> 0, status |-> "-", updated_at |-> 0]
NoMessage == <<>>
NoResp == [status |-> 0, row |-> NoRow, message |-> NoMessage, req |-> NoReq]

\* request inputs
UserIdInputs == {"u1", "u2", "u4", "u0"}
AssetIdInputs == {"a1", "a2", "a0"}
IdInputs == 1..MaxReservations

\* <<startDate, endDate>> inputs around the day that is 30 days after time 0:
\* overlapping, adjacent and disjoint pairs, one interval of no length, one inverted;
\* and intervals 20 days, 45 days and a tick more than 365 days after time 0
Day30 == 30 * TicksPerDay
Day20 == 20 * TicksPerDay
Day45 == 45 * TicksPerDay
Day365 == 365 * TicksPerDay
IntervalInputs ==
    { <<Day30, Day30 + 2>>, <<Day30 + 1, Day30 + 3>>, <<Day30 + 2, Day30 + 3>>,
      <<Day30, Day30 + 1>>, <<Day30 + 1, Day30 + 1>>, <<Day30 + 1, Day30>>,
      <<Day20, Day20 + 1>>, <<Day45, Day45 + 1>>, <<Day365 + 1, Day365 + 2>> }

\* the inputs of the clients that race for one asset (specification SpecConcurrent)
RaceUserIdInputs == {"u1", "u2", "u0"}
RaceAssetIdInputs == {"a1", "a0"}
RaceIntervalInputs == { <<Day30, Day30 + 2>>, <<Day30 + 1, Day30 + 3>> }

CreatePcs == {"asset", "conflict", "insert"}
InFlightCreates == {h \in Handlers : pc[h] \in CreatePcs}
AllIdle == \A h \in Handlers : pc[h] = "idle"

\* res.status(s).json(row): the handler is done
Respond(h, status, row) ==
    /\ pc' = [pc EXCEPT ![h] = "idle"]
    /\ req' = [req EXCEPT ![h] = NoReq]
    /\ resp' = [resp EXCEPT ![h] = [status |-> status, row |-> row,
                                     message |-> NoMessage, req |-> req[h]]]

\* res.status(403).json({ error: `Tier ${tier} members can only book ${maxDaysAhead} days ...` })
RespondForbidden(h, user) ==
    /\ pc' = [pc EXCEPT ![h] = "idle"]
    /\ req' = [req EXCEPT ![h] = NoReq]
    /\ resp' = [resp EXCEPT ![h] = [status |-> 403, row |-> NoRow,
                                     message |-> <<user.tier, maxDaysAhead(JsNum(user.tier))>>,
                                     req |-> req[h]]]

\* the handler goes on to await its next query
Await(h, label) ==
    /\ pc' = [pc EXCEPT ![h] = label]
    /\ UNCHANGED <<req, resp>>

---------------------------------------------------------------------------
(* Handlers *)

Init ==
    /\ reservations = <<>>
    /\ now = 0
    /\ pc = [h \in Handlers |-> "idle"]
    /\ req = [h \in Handlers |-> NoReq]
    /\ resp = [h \in Handlers |-> NoResp]
    /\ tierIn = JsUndefined
    /\ tierOut = 0

\* the authenticate middleware: the users query, then 401 or next()
Authenticate(h, userId, body, label) ==
    /\ pc[h] = "idle"
    /\ LET rows == SelectUser(userId) IN
        IF rows = {}
        THEN /\ pc' = pc
             /\ req' = req
             /\ resp' = [resp EXCEPT ![h] = [status |-> 401, row |-> NoRow,
                                               message |-> NoMessage, req |-> NoReq]]
        ELSE /\ pc' = [pc EXCEPT ![h] = label]
             /\ req' = [req EXCEPT ![h] = [body EXCEPT !.user = CHOOSE u \in rows : TRUE]]
             /\ resp' = [resp EXCEPT ![h] = NoResp]
    /\ UNCHANGED <<reservations, now, tierIn, tierOut>>

\* POST /api/reservations arrives
ReceiveCreate(h, userId, assetId, startDate, endDate) ==
    /\ Len(reservations) + Cardinality(InFlightCreates) < MaxReservations
    /\ Authenticate(h, userId,
                    [NoReq EXCEPT !.assetId = assetId, !.startDate = startDate,
                                  !.endDate = endDate],
                    "asset")

\* PATCH /api/reservations/:id/cancel arrives
ReceiveCancel(h, userId, id) ==
    Authenticate(h, userId, [NoReq EXCEPT !.id = id], "cancel")

\* the ownership query and the 404 after it
AssetQuery(h) ==
    /\ pc[h] = "asset"
    /\ IF SelectAsset(req[h].assetId, req[h].user.family_id) = {}
       THEN Respond(h, 404, NoRow)
       ELSE Await(h, "conflict")
    /\ UNCHANGED <<reservations, now, tierIn, tierOut>>

\* the tier check: daysAhead > maxDaysAhead
ExceedsHorizon(user, startDate) ==
    daysAhead(startDate, now) > maxDaysAhead(JsNum(user.tier))

\* the conflict query, the 409 after it, and the tier check with its 403
ConflictQueryTierFirst(h) ==
    /\ pc[h] = "conflict"
    /\ IF ExceedsHorizon(req[h].user, req[h].startDate)
       THEN RespondForbidden(h, req[h].user)
       ELSE IF SelectConflicts(req[h].assetId, req[h].startDate, req[h].endDate) # {}
       THEN Respond(h, 409, NoRow)
       ELSE Await(h, "insert")
    /\ UNCHANGED <<reservations, now, tierIn, tierOut>>
ConflictQuery(h) ==
    /\ pc[h] = "conflict"
    /\ IF SelectConflicts(req[h].assetId, req[h].startDate, req[h].endDate) # {}
       THEN Respond(h, 409, NoRow)
       ELSE IF ExceedsHorizon(req[h].user, req[h].startDate)
       THEN RespondForbidden(h, req[h].user)
       ELSE Await(h, "insert")
    /\ UNCHANGED <<reservations, now, tierIn, tierOut>>

\* the insert and the 200 with the new row
InsertQueryRechecked(h) ==
    /\ pc[h] = "insert"
    /\ SelectConflicts(req[h].assetId, req[h].startDate, req[h].endDate) = {}
    /\ LET row == NewRow(Len(reservations) + 1, req[h].assetId, req[h].user.id,
                         req[h].startDate, req[h].endDate)
       IN  /\ reservations' = Append(reservations, row)
           /\ Respond(h, 200, row)
    /\ UNCHANGED <<now, tierIn, tierOut>>
InsertQuery(h) ==
    /\ pc[h] = "insert"
    /\ LET row == NewRow(Len(reservations) + 1, req[h].assetId, req[h].user.id,
                         req[h].startDate, req[h].endDate)
       IN  /\ reservations' = Append(reservations, row)
           /\ Respond(h, 200, row)
    /\ UNCHANGED <<now, tierIn, tierOut>>

\* the cancel update and the 404 or the 200 with the updated row
CancelQuery(h) ==
    /\ pc[h] = "cancel"
    /\ LET rows == CancelMatches(req[h].id, req[h].user.id) IN
        IF rows = {}
        THEN /\ Respond(h, 404, NoRow)
             /\ UNCHANGED reservations
        ELSE LET i == CHOOSE j \in rows : TRUE
                 row == CancelledRow(reservations[i])
             IN  /\ reservations' = [reservations EXCEPT ![i] = row]
                 /\ Respond(h, 200, row)
    /\ UNCHANGED <<now, tierIn, tierOut>>

\* a query throws: the handler's catch answers 500
QueryFails(h) ==
    /\ pc[h] # "idle"
    /\ Respond(h, 500, NoRow)
    /\ UNCHANGED <<reservations, now, tierIn, tierOut>>

\* the clock advances
Tick ==
    /\ now < MaxNow
    /\ now' = now + 1
    /\ UNCHANGED <<reservations, pc, req, resp, tierIn, tierOut>>

\* a handler's next query
Step(h) ==
    \/ AssetQuery(h)
    \/ ConflictQuery(h)
    \/ InsertQuery(h)
    \/ CancelQuery(h)
    \/ QueryFails(h)

\* Requests served one at a time: a request is received only when no other is in flight
Next ==
    \/ \E h \in {1}, userId \in UserIdInputs :
          \/ \E assetId \in AssetIdInputs, iv \in IntervalInputs :
                AllIdle /\ ReceiveCreate(h, userId, assetId, iv[1], iv[2])
          \/ \E id \in IdInputs : AllIdle /\ ReceiveCancel(h, userId, id)
    \/ \E h \in Handlers : Step(h)
    \/ Tick

Spec == Init /\ [][Next]_vars

\* Requests served concurrently, interleaved at their awaits
NextConcurrent ==
    \/ \E h \in Handlers, userId \in RaceUserIdInputs :
          \/ \E assetId \in RaceAssetIdInputs, iv \in RaceIntervalInputs :
                ReceiveCreate(h, userId, assetId, iv[1], iv[2])
          \/ \E id \in IdInputs : ReceiveCancel(h, userId, id)
    \/ \E h \in Handlers : Step(h)
    \/ Tick

SpecConcurrent == Init /\ [][NextConcurrent]_vars


---------------------------------------------------------------------------
(* A store that already holds a reservation, as after the demo seed: one row of
   the family's asset, in any status the table's CHECK allows *)

Statuses == {"pending", "confirmed", "active", "completed", "cancelled"}

SeedRow(status) ==
    [id |-> 1, asset_id |-> "a1", user_id |-> "u2",
     start_date |-> Day30, end_date |-> Day30 + 2,
     status |-> status, updated_at |-> 0]

InitSeeded ==
    /\ \E status \in Statuses : reservations = <<SeedRow(status)>>
    /\ now = 0
    /\ pc = [h \in Handlers |-> "idle"]
    /\ req = [h \in Handlers |-> NoReq]
    /\ resp = [h \in Handlers |-> NoResp]
    /\ tierIn = JsUndefined
    /\ tierOut = 0

SpecSeeded == InitSeeded /\ [][Next]_vars

---------------------------------------------------------------------------
(* The tier policy on its own: the lookup applied to any tier value *)

TierInputs ==
    {JsNum(n) : n \in (-MaxTierInput)..MaxTierInput} \cup {JsNull, JsUndefined}

InitTier ==
    /\ Init
    /\ tierOut = 0

\* a tier value reaches the lookup
PickTier ==
    /\ tierIn' \in TierInputs
    /\ tierOut' = 0
    /\ UNCHANGED <<reservations, now, pc, req, resp>>

\* the lookup runs
ApplyTier ==
    /\ tierOut = 0
    /\ tierOut' = maxDaysAhead(tierIn)
    /\ UNCHANGED <<reservations, now, pc, req, resp, tierIn>>

NextTier == PickTier \/ ApplyTier

TierSpec == InitTier /\ [][NextTier]_vars

---------------------------------------------------------------------------
(* Claims *)

\* rows i and j are two reservations of one asset, neither cancelled
LivePair(i, j) ==
    /\ i # j
    /\ reservations[i].asset_id = reservations[j].asset_id
    /\ reservations[i].status # "cancelled"
    /\ reservations[j].status # "cancelled"

\* C1, as claimed: with requests served one at a time from an empty store, no two
\* non-cancelled reservations of one asset overlap, [s1,e1] and [s2,e2]
\* overlapping iff s1 <= e2 and s2 <= e1 (inclusive endpoints).
C1_NoInclusiveOverlap ==
    \A i, j \in Ids :
        LivePair(i, j) =>
            ~(/\ reservations[i].start_date <= reservations[j].end_date
              /\ reservations[j].start_date <= reservations[i].end_date)

\* C1, amended: with requests served one at a time from an empty store, no two
\* non-cancelled reservations of one asset overlap, [s1,e1] and [s2,e2]
\* overlapping iff s1 < e2 and s2 < e1 (they may share an endpoint).
C1_NoHalfOpenOverlap ==
    \A i, j \in Ids :
        LivePair(i, j) =>
            ~(/\ reservations[i].start_date < reservations[j].end_date
              /\ reservations[j].start_date < reservations[i].end_date)

\* C1, witness: two non-cancelled reservations of one asset, the second just
\* admitted and starting when the first ends
C1_Witness ==
    \E i, j \in Ids :
        /\ LivePair(i, j)
        /\ reservations[i].start_date < reservations[i].end_date
        /\ reservations[i].end_date = reservations[j].start_date
        /\ reservations[j].start_date < reservations[j].end_date
        /\ resp[1].status = 200
        /\ resp[1].row = reservations[j]

\* C2: served concurrently, two requests for overlapping intervals of one asset can
\* both pass the conflict check before either inserts, and then both are admitted:
\* a handler that has passed its checks and awaits its insert is never held back,
\* whatever rows the store has received since its conflict query.
C2_InsertNotRechecked ==
    \A h \in Handlers : pc[h] = "insert" => ENABLED InsertQuery(h)

\* C2, witness: the two handlers have answered 200 for two confirmed reservations
\* of one asset whose intervals overlap in more than an instant
C2_Witness ==
    \E i, j \in Ids :
        /\ LivePair(i, j)
        /\ reservations[i].status = "confirmed"
        /\ reservations[j].status = "confirmed"
        /\ reservations[i].start_date < reservations[j].end_date
        /\ reservations[j].start_date < reservations[i].end_date
        /\ resp[1].status = 200 /\ resp[1].row = reservations[i]
        /\ resp[2].status = 200 /\ resp[2].row = reservations[j]

\* the request answered by handler h's last response, when it is a create request
AnsweredCreate(h) == resp[h].req.assetId # "-"

\* the asset exists and belongs to the family of the user
OwnedBy(userId, assetId) ==
    \E u \in users, a \in assets :
        /\ u.id = userId
        /\ a.id = assetId
        /\ u.family_id = a.family_id

\* C3: a create request for an asset that does not exist or belongs to another
\* family never passes the ownership check, is answered 404 whenever the
\* ownership query returns (500 when that query throws), and no reservation
\* is ever stored for an asset that is not of its user's family.
C3_ForeignAssetNotFound ==
    /\ \A h \in Handlers :
        pc[h] \in {"conflict", "insert"} => OwnedBy(req[h].user.id, req[h].assetId)
    /\ \A h \in Handlers :
        (AnsweredCreate(h) /\ ~OwnedBy(resp[h].req.user.id, resp[h].req.assetId))
            => (resp[h].status \in {404, 500} /\ resp[h].row = NoRow)
    /\ \A i \in Ids : OwnedBy(reservations[i].user_id, reservations[i].asset_id)

\* C3, witness: with a reservation stored, a tier-1 user was answered 404 for
\* the asset of another family
C3_Witness ==
    \E h \in Handlers :
        /\ resp[h].status = 404
        /\ resp[h].req.assetId = "a2"
        /\ resp[h].req.user.tier = 1
        /\ reservations # <<>>

\* the rows that were stored when the create request answered by handler h was
\* checked (requests are served one at a time): all but the row it inserted
PriorIds(h) == {i \in Ids : ~(resp[h].status = 200 /\ resp[h].row.id = i)}

\* the non-cancelled ones among them on the asset of that request
LivePriorIds(h) ==
    {i \in PriorIds(h) :
        /\ reservations[i].asset_id = resp[h].req.assetId
        /\ reservations[i].status # "cancelled"}

\* handler h answered a create request of a user for an asset of the user's family
AnsweredOwnedCreate(h) ==
    /\ AnsweredCreate(h)
    /\ OwnedBy(resp[h].req.user.id, resp[h].req.assetId)

\* [s1,e1] and [s2,e2] have more than a single instant in common
ShareMoreThanInstant(s1, e1, s2, e2) == s1 < e1 /\ s2 < e2 /\ s1 < e2 /\ s2 < e1

\* every point of [s1,e1] is earlier than every point of [s2,e2]
EntirelyBefore(s1, e1, s2, e2) == s1 < s2 /\ s1 < e2 /\ e1 < s2 /\ e1 < e2

\* C4: on an asset of the requester's family, a request that has more than an
\* instant in common with a non-cancelled reservation of the asset is answered 409
\* whenever its queries return, never reaches the insert and creates no row; a
\* request lying entirely after or before every non-cancelled reservation of the
\* asset is not answered 409.
C4_ConflictOnOverlap ==
    /\ \A h \in Handlers :
        pc[h] = "insert" =>
            ~\E i \in Ids :
                /\ reservations[i].asset_id = req[h].assetId
                /\ reservations[i].status # "cancelled"
                /\ ShareMoreThanInstant(reservations[i].start_date, reservations[i].end_date,
                                        req[h].startDate, req[h].endDate)
    /\ \A h \in Handlers :
        AnsweredOwnedCreate(h) =>
            /\ (\E i \in LivePriorIds(h) :
                    ShareMoreThanInstant(reservations[i].start_date, reservations[i].end_date,
                                         resp[h].req.startDate, resp[h].req.endDate))
                => (resp[h].status \in {409, 500} /\ resp[h].row = NoRow)
            /\ (\A i \in LivePriorIds(h) :
                    \/ EntirelyBefore(reservations[i].start_date, reservations[i].end_date,
                                      resp[h].req.startDate, resp[h].req.endDate)
                    \/ EntirelyBefore(resp[h].req.startDate, resp[h].req.endDate,
                                      reservations[i].start_date, reservations[i].end_date))
                => resp[h].status # 409

\* C4, witness: a request starting inside a confirmed reservation of the asset
\* and ending after it was answered 409
C4_Witness ==
    \E h \in Handlers, i \in Ids :
        /\ AnsweredOwnedCreate(h)
        /\ resp[h].status = 409
        /\ i \in LivePriorIds(h)
        /\ reservations[i].status = "confirmed"
        /\ reservations[i].start_date < resp[h].req.startDate
        /\ resp[h].req.startDate < reservations[i].end_date
        /\ reservations[i].end_date < resp[h].req.endDate

\* C5, as claimed: a request whose start equals the end of a non-cancelled
\* reservation of the asset (the two sharing only that endpoint) is answered 409.
C5_AdjacentRejected ==
    \A h \in Handlers :
        (/\ AnsweredOwnedCreate(h)
         /\ \E i \in LivePriorIds(h) :
                /\ reservations[i].start_date < reservations[i].end_date
                /\ reservations[i].end_date = resp[h].req.startDate
                /\ resp[h].req.startDate < resp[h].req.endDate)
            => resp[h].status \in {409, 500}

\* [s1,e1] (in either order) ends at or before s2, the start of [s2,e2] with
\* s2 < e2, or starts at or after e2
ApartHalfOpen(s1, e1, s2, e2) ==
    \/ (s1 <= s2 /\ e1 <= s2 /\ (s1 < s2 \/ e1 < s2))
    \/ (e2 <= s1 /\ e2 <= e1)

\* C5, amended: the conflict check uses half-open overlap: a request [s2,e2],
\* s2 < e2, is not answered 409 when every non-cancelled reservation of the asset
\* ends at or before s2 or starts at or after e2, also when one ends exactly at s2.
C5_AdjacentAdmitted ==
    \A h \in Handlers :
        (/\ AnsweredOwnedCreate(h)
         /\ resp[h].req.startDate < resp[h].req.endDate
         /\ \A i \in LivePriorIds(h) :
                ApartHalfOpen(reservations[i].start_date, reservations[i].end_date,
                              resp[h].req.startDate, resp[h].req.endDate))
            => resp[h].status # 409

\* C5, witness: a request starting exactly when a confirmed reservation of the
\* asset ends was admitted
C5_Witness ==
    \E h \in Handlers, i \in Ids :
        /\ AnsweredOwnedCreate(h)
        /\ resp[h].status = 200
        /\ i \in LivePriorIds(h)
        /\ reservations[i].status = "confirmed"
        /\ reservations[i].start_date < reservations[i].end_date
        /\ reservations[i].end_date = resp[h].req.startDate
        /\ resp[h].req.startDate < resp[h].req.endDate

ClaimedLimit(tier) ==
    CASE tier = 1 -> 365
      [] tier = 2 -> 180
      [] tier = 3 -> 90
      [] OTHER -> 30

\* ceil(delta / 1 day): the least d with d days >= delta
ClaimedDaysAhead(delta) ==
    CHOOSE d \in {delta \div TicksPerDay, (delta \div TicksPerDay) + 1} :
        d * TicksPerDay >= delta /\ (d - 1) * TicksPerDay < delta

C8_CreateFrame ==
    [][\A h \in Handlers :
        ((pc[h] \in CreatePcs \/ pc'[h] \in CreatePcs) /\ pc'[h] # pc[h]) =>
            IF pc'[h] = "idle" /\ resp'[h].status = 200
            THEN /\ Len(reservations') = Len(reservations) + 1
                 /\ \A i \in Ids : reservations'[i] = reservations[i]
                 /\ LET row == reservations'[Len(reservations')] IN
                        /\ row.status = "confirmed"
                        /\ row.user_id = req[h].user.id
                        /\ row.asset_id = req[h].assetId
                        /\ row.start_date = req[h].startDate
                        /\ row.end_date = req[h].endDate
                        /\ \A i \in Ids : reservations[i].id # row.id
                        /\ resp'[h].row = row
            ELSE reservations' = reservations
    ]_vars

\* C8, witness: an inverted interval was admitted beside an earlier reservation
C8_Witness ==
    \E h \in Handlers :
        /\ AnsweredCreate(h)
        /\ resp[h].status = 200
        /\ Len(reservations) = 2
        /\ reservations[2] = resp[h].row
        /\ resp[h].req.startDate > resp[h].req.endDate

\* C9: the cancel update sets status cancelled on the row whose id is the request's
\* and whose user_id is the requester, and answers 200; when there is no such row
\* (another user's reservation, or no reservation of that id) it answers 404 and
\* leaves every reservation as it was; no other step turns a status to cancelled.
C9_CancelOnlyByOwner ==
    [][/\ \A h \in Handlers :
            (pc[h] = "cancel" /\ pc'[h] # "cancel") =>
                IF /\ resp'[h].status # 500
                   /\ req[h].id \in Ids
                   /\ reservations[req[h].id].user_id = req[h].user.id
                THEN /\ resp'[h].status = 200
                     /\ reservations'[req[h].id].status = "cancelled"
                     /\ resp'[h].row = reservations'[req[h].id]
                     /\ Len(reservations') = Len(reservations)
                     /\ \A i \in Ids : i # req[h].id => reservations'[i] = reservations[i]
                ELSE /\ resp'[h].status \in {404, 500}
                     /\ reservations' = reservations
       /\ \A i \in Ids :
            (reservations[i].status # "cancelled" /\ reservations'[i].status = "cancelled")
                => \E h \in Handlers :
                    /\ pc[h] = "cancel"
                    /\ req[h].id = i
                    /\ req[h].user.id = reservations[i].user_id
    ]_vars

\* C9, witness: the tier-1 user of the family was answered 404 for cancelling the
\* confirmed reservation of another member
C9_Witness ==
    \E h \in Handlers, i \in Ids :
        /\ resp[h].status = 404
        /\ resp[h].req.id = i
        /\ resp[h].req.user.tier = 1
        /\ reservations[i].user_id = "u2"
        /\ reservations[i].status = "confirmed"

\* C10: the owner's cancel of an already cancelled reservation answers 200 with
\* the reservation and leaves its status (cancelled), asset, user and interval,
\* and every other reservation, as they were after the first cancel.
C10_CancelIdempotent ==
    [][\A h \in Handlers :
        (/\ pc[h] = "cancel" /\ pc'[h] # "cancel" /\ resp'[h].status # 500
         /\ req[h].id \in Ids
         /\ reservations[req[h].id].user_id = req[h].user.id
         /\ reservations[req[h].id].status = "cancelled")
            => LET before == reservations[req[h].id]
                   after == reservations'[req[h].id]
               IN  /\ resp'[h].status = 200
                   /\ resp'[h].row = after
                   /\ after.id = before.id
                   /\ after.status = "cancelled"
                   /\ after.asset_id = before.asset_id
                   /\ after.user_id = before.user_id
                   /\ after.start_date = before.start_date
                   /\ after.end_date = before.end_date
                   /\ Len(reservations') = Len(reservations)
                   /\ \A i \in Ids : i # req[h].id => reservations'[i] = reservations[i]
    ]_vars

\* C10, witness: the owner's second cancel of a reservation is about to run
C10_Witness ==
    \E h \in Handlers :
        /\ pc[h] = "cancel"
        /\ req[h].id \in Ids
        /\ reservations[req[h].id].user_id = req[h].user.id
        /\ reservations[req[h].id].status = "cancelled"

\* C11: every stored reservation has start earlier than end (a request with start
\* later than or equal to end is never persisted).
C11_StartBeforeEnd ==
    \A i \in Ids : reservations[i].start_date < reservations[i].end_date

\* the request of handler h shares more than an instant with a non-cancelled
\* reservation of its asset
RequestOverlapsLive(h) ==
    \E i \in Ids :
        /\ reservations[i].asset_id = req[h].assetId
        /\ reservations[i].status # "cancelled"
        /\ ShareMoreThanInstant(reservations[i].start_date, reservations[i].end_date,
                                req[h].startDate, req[h].endDate)

\* the request of handler h starts beyond its user's horizon
RequestBeyondHorizon(h) ==
    ClaimedDaysAhead(req[h].startDate - now) > ClaimedLimit(req[h].user.tier)

\* C12: createReservation checks ownership, then conflict, then the tier horizon,
\* and answers the first failure: the ownership step answers 404 for an asset that
\* is not the family's, whatever the stored reservations and the horizon are; only
\* a request past the ownership step is answered 409 or 403; and a request that
\* both overlaps a non-cancelled reservation and exceeds the horizon is answered
\* 409, never 403.
C12_CheckOrder ==
    [][\A h \in Handlers :
        /\ (pc[h] = "asset" /\ pc'[h] # "asset" /\ resp'[h].status # 500)
            => IF OwnedBy(req[h].user.id, req[h].assetId)
               THEN pc'[h] = "conflict"
               ELSE resp'[h].status = 404
        /\ (resp'[h] # resp[h] /\ resp'[h].status \in {409, 403}) => pc[h] = "conflict"
        /\ (pc'[h] = "insert" /\ pc[h] # "insert") => pc[h] = "conflict"
        /\ (pc[h] = "conflict" /\ pc'[h] # "conflict" /\ resp'[h].status # 500
                /\ RequestOverlapsLive(h))
            => resp'[h].status = 409
    ]_vars

\* C12, witness: a request that overlaps a live reservation and starts beyond its
\* user's horizon was answered 409
C12_Witness ==
    \E h \in Handlers, i \in Ids :
        /\ resp[h].status = 409
        /\ reservations[i].asset_id = resp[h].req.assetId
        /\ reservations[i].status # "cancelled"
        /\ ShareMoreThanInstant(reservations[i].start_date, reservations[i].end_date,
                                resp[h].req.startDate, resp[h].req.endDate)
        /\ ClaimedDaysAhead(resp[h].req.startDate - now) > ClaimedLimit(resp[h].req.user.tier)

\* every non-cancelled reservation of the asset of handler h's request lies
\* entirely before or entirely after the request
RequestClearOfLive(h) ==
    \A i \in Ids :
        (reservations[i].asset_id = req[h].assetId /\ reservations[i].status # "cancelled")
            => \/ EntirelyBefore(reservations[i].start_date, reservations[i].end_date,
                                 req[h].startDate, req[h].endDate)
               \/ EntirelyBefore(req[h].startDate, req[h].endDate,
                                 reservations[i].start_date, reservations[i].end_date)

\* C13: in the conflict step of a request for an owned asset, a reservation of the
\* asset in status pending, confirmed, active or completed that shares more than an
\* instant with the request makes the answer 409 and nothing is stored; cancelled
\* reservations do not count: a request within the horizon that is clear of every
\* non-cancelled reservation of the asset goes on to its insert, however it
\* overlaps cancelled ones.
C13_OnlyCancelledIgnored ==
    [][\A h \in Handlers :
        (pc[h] = "conflict" /\ pc'[h] # "conflict" /\ resp'[h].status # 500) =>
            /\ RequestOverlapsLive(h) =>
                    (resp'[h].status = 409 /\ reservations' = reservations)
            /\ (RequestClearOfLive(h) /\ ~RequestBeyondHorizon(h)) => pc'[h] = "insert"
    ]_vars

\* C13, witness: after the owner cancelled the stored reservation at time 1, a
\* request sharing more than an instant with it on the same asset was admitted
C13_Witness ==
    \E h \in Handlers :
        /\ Len(reservations) = 2
        /\ reservations[1].status = "cancelled"
        /\ reservations[1].updated_at = 1
        /\ resp[h].status = 200
        /\ resp[h].row = reservations[2]
        /\ reservations[2].asset_id = reservations[1].asset_id
        /\ ShareMoreThanInstant(reservations[1].start_date, reservations[1].end_date,
                                reservations[2].start_date, reservations[2].end_date)

\* C14: no step removes a reservation; the only change of a stored reservation's
\* status is to cancelled, in the cancel step of the reservation's own user; that
\* step cancels from every status (pending, confirmed, active, completed,
\* cancelled), whatever the interval, the clock and the user's tier are; so no
\* reservation becomes active or completed and a cancelled one stays cancelled.
C14_OnlyCancelChangesStatus ==
    [][/\ Len(reservations') >= Len(reservations)
       /\ \A i \in Ids :
            /\ reservations[i].status = "cancelled" => reservations'[i].status = "cancelled"
            /\ reservations'[i].status # reservations[i].status =>
                /\ reservations'[i].status = "cancelled"
                /\ \E h \in Handlers :
                    /\ pc[h] = "cancel" /\ pc'[h] = "idle"
                    /\ req[h].id = i
                    /\ req[h].user.id = reservations[i].user_id
       /\ \A h \in Handlers :
            (/\ pc[h] = "cancel" /\ pc'[h] # "cancel" /\ resp'[h].status # 500
             /\ req[h].id \in Ids
             /\ reservations[req[h].id].user_id = req[h].user.id)
                => /\ reservations[req[h].id].status \in Statuses
                   /\ reservations'[req[h].id].status = "cancelled"
                   /\ resp'[h].status = 200
    ]_vars

\* C14, witness: the owner's cancel of a reservation in status completed is about
\* to run
C14_Witness ==
    \E h \in Handlers :
        /\ pc[h] = "cancel"
        /\ req[h].id \in Ids
        /\ reservations[req[h].id].user_id = req[h].user.id
        /\ reservations[req[h].id].status = "completed"

\* the family of a stored user, the family of a stored asset
FamilyOfUser(userId) == (CHOOSE u \in users : u.id = userId).family_id
FamilyOfAsset(assetId) == (CHOOSE a \in assets : a.id = assetId).family_id

\* C15: every stored reservation is of a stored user with a family and of a stored
\* asset of that same family; a create request of a user without a family never
\* passes the ownership step and is answered 404 for every asset (500 when the
\* query throws), with nothing stored for that user.
C15_TenantIsolation ==
    /\ \A i \in Ids :
        /\ reservations[i].user_id \in {u.id : u \in users}
        /\ reservations[i].asset_id \in {a.id : a \in assets}
        /\ FamilyOfUser(reservations[i].user_id) # NULL
        /\ FamilyOfUser(reservations[i].user_id) = FamilyOfAsset(reservations[i].asset_id)
    /\ \A h \in Handlers :
        /\ pc[h] \in {"conflict", "insert"} => req[h].user.family_id # NULL
        /\ (AnsweredCreate(h) /\ resp[h].req.user.family_id = NULL)
            => resp[h].status \in {404, 500}

\* C15, witness: with a reservation stored on the asset, the user without a family
\* was answered 404 for that existing asset
C15_Witness ==
    \E h \in Handlers, i \in Ids :
        /\ resp[h].status = 404
        /\ resp[h].req.user.id = "u4"
        /\ resp[h].req.user.family_id = NULL
        /\ resp[h].req.assetId = reservations[i].asset_id

====
